---- MODULE Spec2Model ----
(***************************************************************************)
(* Synm Mediator: sessions, policy check, context pipeline and the         *)
(* hash-chained audit log (mediator/app).                                  *)
(*                                                                         *)
(* Representation notes.                                                   *)
(*  - Python None of a string-valued field is the string "None"; no id,    *)
(*    profile or token of the model is spelled that way.                   *)
(*  - A SHA-256 digest is modelled as an ideal (collision-free) hash: the  *)
(*    digest of "prev:canonical" is the sequence prev \o <<canonical>>,    *)
(*    the digest of "canonical" alone is <<canonical>>.  None in a hash    *)
(*    column is the empty sequence.                                        *)
(*  - A Python dict with string keys is a sequence of <<key, value>> pairs *)
(*    in insertion order.  A TEXT column holding JSON is <<pairs>>, a NULL *)
(*    or empty TEXT column is << >>.                                       *)
(*  - Time is counted in minutes.                                          *)
(*  - A text is a sequence of one-character strings.  A regular expression *)
(*    of the redactor is given by the substrings of the model's texts that *)
(*    it matches and by its leading and trailing \b.                       *)
(*  - An Authorization header is <<scheme, credentials>>; a request        *)
(*    without the header carries << >>.                                    *)
(***************************************************************************)
EXTENDS Naturals, Integers, Sequences, FiniteSets, TLC

\* ------------------------------------------------------------------ bounds
MaxTime == 2
MaxLog == 3
MaxOps == 2
MaxScopes == 3
MaxRules == 2
MaxResults == 2

\* ------------------------------------------------------- values and inputs
None == "None"
NoneHash == << >>
NullText == << >>

SessionIds == {"s1", "s2"}
UnknownSessionId == "non-existent"
\* the argument metadata=None of log_event
NoMetadata == << <<None, None>> >>

VARIABLES
    now,         \* datetime.utcnow(), in minutes
    sessions,    \* table sessions: id -> row
    audit_log,   \* table audit_log, in insertion (id) order
    req,         \* the in-flight HTTP requests, one record per slot
    started,     \* number of requests started so far
    tampered,    \* the out-of-band edit made to audit_log, if any
    probe,       \* arguments and result of a directly called pure function
    environ      \* os.environ: the variables the handlers read on each call

vars == <<now, sessions, audit_log, req, started, tampered, probe, environ>>

\* ------------------------------------------------------------ audit logger
\* hashlib.sha256(user_token.encode()).hexdigest()[:16], or None
UserTokenHash(user_token) ==
    IF user_token = None THEN NoneHash ELSE <<"sha256_16", user_token>>

\* `metadata or {}`: None and the empty dict both give the empty dict
MetadataOrEmpty(metadata) ==
    IF Len(metadata) = 0 \/ metadata[1][1] = None THEN << >> ELSE metadata

\* json.dumps(metadata or {}) as stored in the TEXT column
JsonDumps(md) == <<md>>

\* json.loads(row["metadata"]) if row["metadata"] else {}
JsonLoadsOrEmpty(text) == IF text # NullText THEN text[1] ELSE << >>

\* the keys the program uses, in the order sorted() gives them
KeyOrder ==
    <<"citations_count", "context_size", "days", "format",
      "prompt_preview", "scopes", "ttl_minutes">>

RECURSIVE SortKeysFrom(_, _)
SortKeysFrom(md, k) ==
    IF k > Len(KeyOrder) THEN << >>
    ELSE LET hits == SelectSeq(md, LAMBDA p : p[1] = KeyOrder[k])
         IN  hits \o SortKeysFrom(md, k + 1)

\* json.dumps(event_data, sort_keys=True): the six fields in key order
\* event_type, metadata, profile, session_id, timestamp, user_token_hash
Canonical(event_data) ==
    <<event_data.event_type, SortKeysFrom(event_data.metadata, 1), event_data.profile,
      event_data.session_id, event_data.timestamp, event_data.user_token_hash>>

\* AuditLogger._calculate_hash
_calculate_hash(event_data, previous_hash) ==
    IF previous_hash # NoneHash
    THEN Append(previous_hash, Canonical(event_data))
    ELSE <<Canonical(event_data)>>

\* faulty variant: the tail is read in ascending id order
GetLastHashAscending(rows) ==
    IF rows = << >> THEN NoneHash ELSE rows[1].hash

\* AuditLogger._get_last_hash: SELECT hash ... ORDER BY id DESC LIMIT 1
_get_last_hash(rows) ==
    IF rows = << >> THEN NoneHash ELSE rows[Len(rows)].hash

\* the dict event_data built by log_event
EventData(timestamp, event_type, session_id, profile, metadata, user_token) ==
    [timestamp |-> timestamp, event_type |-> event_type,
     session_id |-> session_id, profile |-> profile,
     user_token_hash |-> UserTokenHash(user_token),
     metadata |-> MetadataOrEmpty(metadata)]

\* the row log_event inserts, given the tail hash it read earlier
NewRow(rows, ev, metadata, previous_hash) ==
    [id |-> IF rows = << >> THEN 1 ELSE rows[Len(rows)].id + 1,
     timestamp |-> ev.timestamp, event_type |-> ev.event_type,
     session_id |-> ev.session_id, profile |-> ev.profile,
     user_token_hash |-> ev.user_token_hash,
     metadata |-> JsonDumps(MetadataOrEmpty(metadata)),
     hash |-> _calculate_hash(ev, previous_hash),
     previous_hash |-> previous_hash]

\* event_data as verify_integrity rebuilds it from a stored row
RowEventData(row) ==
    [timestamp |-> row.timestamp, event_type |-> row.event_type,
     session_id |-> row.session_id, profile |-> row.profile,
     user_token_hash |-> row.user_token_hash,
     metadata |-> JsonLoadsOrEmpty(row.metadata)]

\* AuditLogger.verify_integrity: the boolean it returns and the id of the
\* entry named in its error message (0 when it returns True)
RECURSIVE VerifyFrom(_, _)
VerifyFrom(rows, i) ==
    IF i > Len(rows) THEN [ok |-> TRUE, entry |-> 0]
    ELSE IF i = 1
         THEN IF rows[1].previous_hash # NoneHash
              THEN [ok |-> FALSE, entry |-> rows[1].id]
              ELSE VerifyFrom(rows, 2)
         ELSE IF _calculate_hash(RowEventData(rows[i]), rows[i].previous_hash)
                    # rows[i].hash
              THEN [ok |-> FALSE, entry |-> rows[i].id]
              ELSE IF rows[i].previous_hash # rows[i - 1].hash
                   THEN [ok |-> FALSE, entry |-> rows[i].id]
                   ELSE VerifyFrom(rows, i + 1)

\* faulty variant: the chain link between neighbours is not verified
VerifyIntegrityNoChainLink(rows) ==
    LET bad == {i \in 1..Len(rows) :
                  IF i = 1 THEN rows[1].previous_hash # NoneHash
                  ELSE _calculate_hash(RowEventData(rows[i]), rows[i].previous_hash)
                           # rows[i].hash}
    IN  IF bad = {} THEN [ok |-> TRUE, entry |-> 0]
        ELSE [ok |-> FALSE,
              entry |-> rows[CHOOSE i \in bad : \A j \in bad : i <= j].id]

verify_integrity(rows) == VerifyFrom(rows, 1)
\* ---------------------------------------------------------- policy engine
\* the policy document after load_policies: PolicyEngine.profiles
profiles ==
    [work |-> [allowed_scopes |-> <<"bio.basic", "projects.recent">>,
               redactions |-> <<"mask_emails", "drop_phone">>],
     public |-> [allowed_scopes |-> <<"bio.basic">>,
                 redactions |-> <<"mask_emails">>],
     bare |-> [redactions |-> << >>]]

ProfileNames == {"work", "public", "bare", "ghost"}
ScopeNames == {"bio.basic", "projects.recent", "health.private"}

InSeq(x, s) == \E i \in 1..Len(s) : s[i] = x

\* profile_config.get('allowed_scopes', [])
AllowedScopesOf(profile_config) ==
    IF "allowed_scopes" \in DOMAIN profile_config
    THEN profile_config.allowed_scopes ELSE << >>

\* the loop of check_access over requested_scopes, from position i
RECURSIVE CheckScopesFrom(_, _, _)
CheckScopesFrom(allowed_scopes, requested_scopes, i) ==
    IF i > Len(requested_scopes) THEN TRUE
    ELSE IF ~InSeq(requested_scopes[i], allowed_scopes) THEN FALSE
         ELSE CheckScopesFrom(allowed_scopes, requested_scopes, i + 1)

\* faulty variant: only the first requested scope is checked
CheckAccessFirstOnly(profile, requested_scopes) ==
    IF profile \notin DOMAIN profiles THEN FALSE
    ELSE requested_scopes = << >>
         \/ InSeq(requested_scopes[1], AllowedScopesOf(profiles[profile]))

\* PolicyEngine.check_access
check_access(profile, requested_scopes) ==
    IF profile \notin DOMAIN profiles THEN FALSE
    ELSE CheckScopesFrom(AllowedScopesOf(profiles[profile]), requested_scopes, 1)

\* PolicyEngine.defaults after load_policies
defaults == [ttl_minutes |-> 15]

\* PolicyEngine.get_default_ttl
get_default_ttl ==
    IF "ttl_minutes" \in DOMAIN defaults THEN defaults.ttl_minutes ELSE 20

\* faulty variant: an unknown profile gets the empty rule list
GetRedactionRulesNoDefault(profile) ==
    IF profile \in DOMAIN profiles /\ "redactions" \in DOMAIN profiles[profile]
    THEN profiles[profile].redactions ELSE << >>

\* PolicyEngine.get_redaction_rules
get_redaction_rules(profile) ==
    IF profile \notin DOMAIN profiles THEN <<"mask_all">>
    ELSE IF "redactions" \in DOMAIN profiles[profile]
         THEN profiles[profile].redactions ELSE << >>
\* ------------------------------------------------------------ text helpers
\* A text is a sequence of one-character strings.
Min(a, b) == IF a < b THEN a ELSE b

RECURSIVE ByteLen(_)
\* len(text.encode()): two bytes for the accented letter, one for any other
\* character of the model's texts
ByteLen(text) ==
    IF text = << >> THEN 0
    ELSE (IF Head(text) = "U+00E9" THEN 2 ELSE 1) + ByteLen(Tail(text))

IsSpace(c) == c \in {" ", "\n", "\t"}

RECURSIVE LStrip(_)
LStrip(text) ==
    IF text # << >> /\ IsSpace(Head(text)) THEN LStrip(Tail(text)) ELSE text

RECURSIVE RStrip(_)
RStrip(text) ==
    IF text # << >> /\ IsSpace(text[Len(text)])
    THEN RStrip(SubSeq(text, 1, Len(text) - 1)) ELSE text

\* str.strip()
Strip(text) == RStrip(LStrip(text))

\* text[:n]
Slice(text, n) == SubSeq(text, 1, Min(n, Len(text)))

\* text.rsplit(' ', 1)[0]: what precedes the last space, or the whole text
RSplitHead(text) ==
    IF \E i \in 1..Len(text) : text[i] = " "
    THEN LET last == CHOOSE i \in 1..Len(text) :
                         /\ text[i] = " "
                         /\ \A j \in (i + 1)..Len(text) : text[j] # " "
         IN  SubSeq(text, 1, last - 1)
    ELSE text

RECURSIVE JoinFrom(_, _)
JoinFrom(parts, i) ==
    IF i > Len(parts) THEN << >>
    ELSE IF i = Len(parts) THEN parts[i]
         ELSE parts[i] \o <<"\n", "\n">> \o JoinFrom(parts, i + 1)

\* "\n\n".join(parts)
Join(parts) == JoinFrom(parts, 1)

StartsWith(text, i, lit) ==
    /\ i + Len(lit) - 1 <= Len(text)
    /\ SubSeq(text, i, i + Len(lit) - 1) = lit

\* \w of the patterns: every character of the model's texts is a letter, a
\* digit or an underscore, except these
IsWord(c) == c \notin {" ", "\n", "\t", "@", ".", "[", "]", ":", "/"}

\* \b between text[i - 1] and text[i], for i in 1..Len(text) + 1
Boundary(text, i) ==
    (i > 1 /\ IsWord(text[i - 1])) # (i <= Len(text) /\ IsWord(text[i]))

\* A pattern is given by the substrings of the model's texts that its
\* regular expression matches (matches) and by whether the expression opens
\* (b_start) and closes (b_end) with \b.
Pattern(matches, b_start, b_end) ==
    [matches |-> matches, b_start |-> b_start, b_end |-> b_end]

\* the pattern matches l at position i of text
MatchAt(pattern, text, i, l) ==
    /\ l \in pattern.matches
    /\ StartsWith(text, i, l)
    /\ pattern.b_start => Boundary(text, i)
    /\ pattern.b_end => Boundary(text, i + Len(l))

\* faulty variant: re.sub(..., count=1), only the first match is replaced
ReSubFirstOnly(pattern, rep, text, i) ==
    LET hits == {j \in i..Len(text) :
                    \E l \in pattern.matches : MatchAt(pattern, text, j, l)}
    IN  IF hits = {} THEN SubSeq(text, i, Len(text))
        ELSE LET j == CHOOSE h \in hits : \A k \in hits : h <= k
                 found == {l \in pattern.matches : MatchAt(pattern, text, j, l)}
                 l == CHOOSE m \in found : \A k \in found : Len(k) <= Len(m)
             IN  SubSeq(text, i, j - 1) \o rep
                 \o SubSeq(text, j + Len(l), Len(text))

\* re.sub(pattern, replacement, text): leftmost matches, the quantifiers greedy
RECURSIVE ReSub(_, _, _, _)
ReSub(pattern, rep, text, i) ==
    IF i > Len(text) THEN << >>
    ELSE LET found == {l \in pattern.matches : MatchAt(pattern, text, i, l)}
         IN  IF found # {}
             THEN LET l == CHOOSE m \in found : \A k \in found : Len(k) <= Len(m)
                  IN  rep \o ReSub(pattern, rep, text, i + Len(l))
             ELSE <<text[i]>> \o ReSub(pattern, rep, text, i + 1)

\* ---------------------------------------------------------------- redactor
EmailLit == <<"a", "@", "b", ".", "c", "o">>
PhoneLit == <<"5", "5", "5", "1", "2", "3", "4", "5", "6", "7">>
CardLit ==
    <<"1", "2", "3", "4", "5", "6", "7", "8", "9", "0", "1", "2", "3", "4", "5", "6">>
UrlLit == <<"h", "t", "t", "p", ":", "/", "/", "x">>

\* PIIRedactor.redaction_patterns.  drop_phone takes up to three leading
\* digits as a country code, so it matches the first 13 digits of CardLit.
redaction_patterns ==
    [mask_emails |->
        [pattern |-> Pattern({EmailLit}, TRUE, TRUE),
         token |-> <<"[", "E", "M", "A", "I", "L", "]">>],
     drop_phone |->
        [pattern |-> Pattern({PhoneLit, SubSeq(CardLit, 1, 13)}, FALSE, FALSE),
         token |-> <<"[", "P", "H", "O", "N", "E", "]">>],
     drop_exact_address |->
        [pattern |-> Pattern({}, FALSE, TRUE),
         token |-> <<"[", "A", "D", "D", "R", "E", "S", "S", "]">>],
     mask_ssn |->
        [pattern |-> Pattern({}, TRUE, TRUE),
         token |-> <<"[", "S", "S", "N", "]">>],
     mask_credit_card |->
        [pattern |-> Pattern({CardLit}, TRUE, TRUE),
         token |-> <<"[", "C", "R", "E", "D", "I", "T", "_", "C", "A", "R", "D", "]">>],
     mask_ip |->
        [pattern |-> Pattern({}, TRUE, TRUE),
         token |-> <<"[", "I", "P", "_", "A", "D", "D", "R", "E", "S", "S", "]">>]]

\* faulty variant: the loop ends at the first name that is not in the registry
RECURSIVE ApplyRulesStopAtUnknown(_, _, _)
ApplyRulesStopAtUnknown(text, redaction_rules, i) ==
    IF i > Len(redaction_rules) THEN text
    ELSE LET rule == redaction_rules[i]
         IN  IF rule \in DOMAIN redaction_patterns
             THEN ApplyRulesStopAtUnknown(
                      ReSub(redaction_patterns[rule].pattern,
                            redaction_patterns[rule].token, text, 1),
                      redaction_rules, i + 1)
             ELSE text

\* the loop over redaction_rules in redact
RECURSIVE ApplyRulesFrom(_, _, _)
ApplyRulesFrom(text, redaction_rules, i) ==
    IF i > Len(redaction_rules) THEN text
    ELSE LET rule == redaction_rules[i]
             next == IF rule \in DOMAIN redaction_patterns
                     THEN ReSub(redaction_patterns[rule].pattern,
                                redaction_patterns[rule].token, text, 1)
                     ELSE text
         IN  ApplyRulesFrom(next, redaction_rules, i + 1)

\* the patterns of _mask_personal_details
DateLit == <<"M", "a", "y", " ", "1", " ", "2", "0", "0", "0">>
AgeLit == <<"7", " ", "y", "e", "a", "r", "s", " ", "o", "l", "d">>
DatePattern == Pattern({DateLit}, TRUE, TRUE)
AgePattern == Pattern({AgeLit}, TRUE, TRUE)
FamilyPattern == Pattern({<<"s", "o", "n">>}, TRUE, TRUE)

\* PIIRedactor._mask_personal_details: dates of birth, ages, family terms
_mask_personal_details(text) ==
    LET dates == ReSub(DatePattern, <<"[", "D", "A", "T", "E", "]">>, text, 1)
        ages == ReSub(AgePattern, <<"[", "A", "G", "E", "]">>, dates, 1)
    IN  ReSub(FamilyPattern, <<"[", "F", "A", "M", "I", "L", "Y", "]">>, ages, 1)

\* the patterns of _maximum_redaction: \b\d+\b, \b[A-Z][a-z]+\b, https?://[^\s]+
NumberPattern ==
    Pattern({<<"7">>, <<"5">>, <<"1">>, <<"2", "0", "0", "0">>, <<"4", "5", "6">>,
             PhoneLit, CardLit}, TRUE, TRUE)
NamePattern == Pattern({<<"B", "o">>, <<"M", "a", "y">>}, TRUE, TRUE)
UrlPattern == Pattern({UrlLit}, FALSE, FALSE)

\* PIIRedactor._maximum_redaction: numbers, capitalized words, URLs
_maximum_redaction(text) ==
    LET numbers == ReSub(NumberPattern, <<"[", "N", "U", "M", "B", "E", "R", "]">>, text, 1)
        names == ReSub(NamePattern, <<"[", "N", "A", "M", "E", "]">>, numbers, 1)
    IN  ReSub(UrlPattern, <<"[", "U", "R", "L", "]">>, names, 1)

\* faulty variant: the profile pass runs only when a rule was requested
RedactNoProfilePassWithoutRules(text, profile, redaction_rules) ==
    IF text = << >> THEN text
    ELSE LET ruled == ApplyRulesFrom(text, redaction_rules, 1)
         IN  IF redaction_rules = << >> THEN ruled
             ELSE IF profile = "work" THEN _mask_personal_details(ruled)
             ELSE IF profile = "public" THEN _maximum_redaction(ruled)
             ELSE ruled

\* PIIRedactor.redact; presidio_analyzer is None (the package is not installed)
redact(text, profile, redaction_rules) ==
    IF text = << >> THEN text
    ELSE LET ruled == ApplyRulesFrom(text, redaction_rules, 1)
         IN  IF profile = "work" THEN _mask_personal_details(ruled)
             ELSE IF profile = "public" THEN _maximum_redaction(ruled)
             ELSE ruled

\* ------------------------------------------------------ environment values
\* os.getenv("MAX_CONTEXT_BYTES"), the configured ceiling
MAX_CONTEXT_BYTES == 8
\* os.getenv("CONTEXT_TTL_MINUTES", "20")
CONTEXT_TTL_MINUTES == 20
\* os.getenv("MEDIATOR_PAT")
MEDIATOR_PAT == "test-token"
Tokens == {"test-token", "bad-token"}

\* the Authorization header of a request: <<scheme, credentials>>, or
\* NoHeader when the request has none
NoHeader == << >>
Authorizations ==
    {<<"Bearer", token>> : token \in Tokens} \cup {<<"Basic", "test-token">>, NoHeader}

\* get_context, "Enforce size limits"
EnforceSize(redacted_context) ==
    IF ByteLen(redacted_context) > MAX_CONTEXT_BYTES
    THEN RSplitHead(Slice(redacted_context, MAX_CONTEXT_BYTES)) \o <<".", ".", ".">>
    ELSE redacted_context

\* auth.pat.verify_pat
verify_pat(token) ==
    LET expected_pat == environ.MEDIATOR_PAT
    IN  IF token = "" THEN FALSE
        ELSE IF expected_pat = "" THEN FALSE
        ELSE token = expected_pat
\* ------------------------------------------------------------------ stores
\* table scope_data (sql.py, ScopeData), as seeded
scope_data ==
    [bio_basic |-> <<"m", "e", " ", "a", "@", "b", ".", "c", "o">>,
     projects_recent |-> <<"B", "o", " ", "s", "o", "n">>,
     health_private |-> <<"i", "l", "l">>]

ScopeKey(scope) ==
    CASE scope = "bio.basic" -> "bio_basic"
      [] scope = "projects.recent" -> "projects_recent"
      [] scope = "health.private" -> "health_private"
      [] OTHER -> "absent"

\* SQLStore.get_scope_data: the content, or None
get_scope_data(scope) ==
    IF ScopeKey(scope) \in DOMAIN scope_data
    THEN <<scope_data[ScopeKey(scope)]>> ELSE << >>

\* the documents of the vector collection, nearest first
VectorDocs ==
    << [content |-> <<"m", "e", " ", "a", "@", "b", ".", "c", "o", " ">>,
        source |-> "notes/bio.md", scope |-> "bio.basic", score |-> 1],
       [content |-> <<"i", "l", "l">>,
        source |-> "notes/health.md", scope |-> "health.private", score |-> 2] >>

\* VectorStore.search: [] when the collection is missing or the query fails,
\* otherwise the first min(limit, 10) documents whose scope is among scopes
\* (no filter at all when scopes is empty)
search(collection_ok, scopes, limit) ==
    IF ~collection_ok THEN << >>
    ELSE LET hits == SelectSeq(VectorDocs,
                         LAMBDA d : scopes = << >> \/ InSeq(d.scope, scopes))
         IN  Slice(hits, Min(limit, 10))

\* f"scope:{scope}"
ScopeRef(scope) ==
    CASE scope = "bio.basic" -> "scope:bio.basic"
      [] scope = "projects.recent" -> "scope:projects.recent"
      [] scope = "health.private" -> "scope:health.private"
      [] OTHER -> "scope:?"

\* faulty variant: the content is compared without strip()
AddPartNoStrip(acc, content, citation) ==
    IF content \in acc.seen_content THEN acc
    ELSE [context_parts |-> Append(acc.context_parts, content),
          seen_content |-> acc.seen_content \cup {content},
          citations |-> Append(acc.citations, citation)]

\* one pass of either gathering loop of get_context: keep the content unless
\* hash(content.strip()) was seen
AddPart(acc, content, citation) ==
    IF Strip(content) \in acc.seen_content THEN acc
    ELSE [context_parts |-> Append(acc.context_parts, content),
          seen_content |-> acc.seen_content \cup {Strip(content)},
          citations |-> Append(acc.citations, citation)]

RECURSIVE GatherVector(_, _, _)
GatherVector(acc, vector_results, i) ==
    IF i > Len(vector_results) THEN acc
    ELSE GatherVector(
             AddPart(acc, vector_results[i].content,
                     [type |-> "vector", ref |-> vector_results[i].source,
                      score |-> vector_results[i].score]),
             vector_results, i + 1)

RECURSIVE GatherStructured(_, _, _)
GatherStructured(acc, scopes, i) ==
    IF i > Len(scopes) THEN acc
    ELSE LET scope_data_i == get_scope_data(scopes[i])
         IN  GatherStructured(
                 IF scope_data_i # << >>
                 THEN AddPart(acc, scope_data_i[1],
                              [type |-> "structured", ref |-> ScopeRef(scopes[i])])
                 ELSE acc,
                 scopes, i + 1)

\* faulty variant: the revoked filter is missing from the query
GetSessionIgnoringRevoked(table, session_id) ==
    IF session_id \in DOMAIN table THEN <<table[session_id]>> ELSE << >>

\* SQLStore.get_session: the row, or None for a missing or revoked session
get_session(table, session_id) ==
    IF session_id \in DOMAIN table /\ ~table[session_id].revoked
    THEN <<table[session_id]>> ELSE << >>

\* SQLStore.revoke_session: the boolean it returns
revoke_session_result(table, session_id) == session_id \in DOMAIN table

\* faulty variant: the row of a revoked session is deleted
RevokeSessionDeletesRow(table, session_id) ==
    [id \in DOMAIN table \ {session_id} |-> table[id]]

\* SQLStore.revoke_session: the table it leaves
revoke_session_table(table, session_id) ==
    IF session_id \in DOMAIN table
    THEN [table EXCEPT ![session_id].revoked = TRUE] ELSE table
\* ---------------------------------------------------------------- requests
Reqs == {1, 2}
CreateProfiles == {"work"}
TtlInputs == {0, 1}                 \* 0: ttl_minutes absent from the request
ContextProfiles == {"work", "public", "ghost"}
ContextScopes == {<< >>, <<"bio.basic">>, <<"bio.basic", "health.private">>}
Prompt == <<"h", "i">>
PromptPreviewLen == 100
ContextPrompts == {Prompt}

NoEvent == EventData(0, None, None, None, << >>, None)
EmptyAcc == [context_parts |-> << >>, seen_content |-> {}, citations |-> << >>]
NoCheck == [exists |-> FALSE, revoked |-> FALSE, expires_at |-> 0, at |-> 0]

\* a request slot: the arguments, the handler's locals, the response, what
\* the session table held when the handler read it (chk), the retrieval
\* backends the handler has called (queried) and those that were unavailable
\* when it called them (degraded)
IdleReq ==
    [op |-> "idle", pc |-> "idle", authorization |-> NoHeader, token |-> None,
     session_id |-> None,
     profile |-> None, scopes |-> << >>, prompt |-> << >>, acc |-> EmptyAcc,
     raw_context |-> << >>, context |-> << >>, ev |-> NoEvent,
     metadata |-> << >>, previous_hash |-> NoneHash, steps |-> << >>,
     status |-> 0, delivered |-> FALSE, expires_at |-> 0,
     audit_failed |-> FALSE, chk |-> NoCheck, success |-> FALSE,
     queried |-> {}, degraded |-> {}]

Mark(rq, step) == [rq EXCEPT !.steps = Append(@, step)]

\* the handler has returned or raised: its locals are gone
Finish(rq, code) ==
    [rq EXCEPT !.pc = "done", !.status = code, !.acc = EmptyAcc, !.prompt = << >>,
               !.raw_context = << >>, !.ev = NoEvent, !.metadata = << >>,
               !.previous_hash = NoneHash]

\* raise HTTPException(status_code=...)
Reject(rq, code) == Finish(rq, code)

\* run the next stretch of a handler unless an exception already ended it
Then(rq, F(_)) == IF rq.pc = "done" THEN rq ELSE F(rq)

\* what the session table holds for id at time t
Observe(table, id, t) ==
    IF id \in DOMAIN table
    THEN [exists |-> TRUE, revoked |-> table[id].revoked,
          expires_at |-> table[id].expires_at, at |-> t]
    ELSE [exists |-> FALSE, revoked |-> FALSE, expires_at |-> 0, at |-> t]

\* faulty variant: the token of a Bearer header is not verified
RequireAuthNoVerify(rq) ==
    IF rq.authorization = NoHeader THEN Reject(rq, 422)
    ELSE IF rq.authorization[1] # "Bearer" THEN Reject(rq, 401)
    ELSE Mark([rq EXCEPT !.token = rq.authorization[2]], "authenticated")

\* require_auth.  Its parameter is Header(...), a required header: a request
\* without it is answered 422 before the body of require_auth runs.
RequireAuth(rq) ==
    IF rq.authorization = NoHeader THEN Reject(rq, 422)
    ELSE IF rq.authorization[1] # "Bearer" THEN Reject(rq, 401)
    ELSE LET token == rq.authorization[2]
         IN  IF ~verify_pat(token) THEN Reject(rq, 401)
             ELSE Mark([rq EXCEPT !.token = token], "authenticated")

\* faulty variant: an expired session is reported like a missing one
ValidateSessionExpiredAsNotFound(rq, table, t) ==
    LET session == get_session(table, rq.session_id)
    IN  IF session = << >> \/ session[1].expires_at < t THEN Reject(rq, 404)
        ELSE Mark(rq, "session_validated")

\* get_context, "Validate session"
ValidateSession(rq, table, t) ==
    LET session == get_session(table, rq.session_id)
    IN  IF session = << >> THEN Reject(rq, 404)
        ELSE IF session[1].expires_at < t THEN Reject(rq, 410)
        ELSE Mark(rq, "session_validated")

\* faulty variant: the denial is noticed but the request is not aborted
AuthorizeNoAbort(rq) == Mark(rq, "authorized")

\* faulty variant: the semantic search runs before the policy check
AuthorizeAfterSearch(rq) ==
    IF ~check_access(rq.profile, rq.scopes)
    THEN Reject([rq EXCEPT !.queried = {"semantic"}], 403)
    ELSE Mark(rq, "authorized")

\* get_context, "Check policy permissions"
Authorize(rq) ==
    IF ~check_access(rq.profile, rq.scopes) THEN Reject(rq, 403)
    ELSE Mark(rq, "authorized")

\* get_context, the vector-store loop
GatherSemantic(rq, collection_ok) ==
    [rq EXCEPT !.acc = GatherVector(EmptyAcc, search(collection_ok, rq.scopes, 5), 1),
               !.queried = {"semantic"},
               !.degraded = IF collection_ok THEN {} ELSE {"semantic"},
               !.pc = "gather"]

\* an exception raised inside get_scope_data: the structured loop of
\* get_context has no handler for it
OnScopeDataError(rq) ==
    [Finish(rq, 500) EXCEPT !.queried = @ \cup {"structured"},
                            !.degraded = @ \cup {"structured"}, !.context = << >>]

\* faulty variant: the preview is cut from the gathered text
GatherRedactBoundLogsRaw(rq, t) ==
    LET acc == GatherStructured(rq.acc, rq.scopes, 1)
        raw_context == Join(acc.context_parts)
        redacted == redact(raw_context, rq.profile, get_redaction_rules(rq.profile))
        bounded == EnforceSize(redacted)
        metadata == << <<"scopes", rq.scopes>>,
                       <<"prompt_preview", Slice(raw_context, PromptPreviewLen)>>,
                       <<"context_size", Len(bounded)>>,
                       <<"citations_count", Len(acc.citations)>> >>
    IN  [rq EXCEPT !.acc = acc, !.raw_context = raw_context, !.context = bounded,
                   !.queried = IF rq.scopes # << >> THEN @ \cup {"structured"} ELSE @,
                   !.steps = @ \o <<"gathered", "redacted", "bounded">>,
                   !.metadata = metadata,
                   !.ev = EventData(t, "context_provided", rq.session_id,
                                    rq.profile, metadata, None),
                   !.pc = "audit_tail"]

\* get_context from the structured loop to the call of log_event
GatherRedactBound(rq, t) ==
    LET acc == GatherStructured(rq.acc, rq.scopes, 1)
        raw_context == Join(acc.context_parts)
        redacted == redact(raw_context, rq.profile, get_redaction_rules(rq.profile))
        bounded == EnforceSize(redacted)
        metadata == << <<"scopes", rq.scopes>>,
                       <<"prompt_preview", Slice(rq.prompt, PromptPreviewLen)>>,
                       <<"context_size", Len(bounded)>>,
                       <<"citations_count", Len(acc.citations)>> >>
    IN  [rq EXCEPT !.acc = acc, !.raw_context = raw_context, !.context = bounded,
                   !.queried = IF rq.scopes # << >> THEN @ \cup {"structured"} ELSE @,
                   !.steps = @ \o <<"gathered", "redacted", "bounded">>,
                   !.metadata = metadata,
                   !.ev = EventData(t, "context_provided", rq.session_id,
                                    rq.profile, metadata, None),
                   !.pc = "audit_tail"]

\* the statements of a handler after its log_event call returned
Respond(rq, t) ==
    LET sent == [Finish(rq, 200) EXCEPT !.steps = @ \o <<"audited", "returned">>]
    IN  IF rq.op = "context"
        THEN [sent EXCEPT !.delivered = TRUE,
                          !.expires_at = t + CONTEXT_TTL_MINUTES]
        ELSE sent

\* faulty variant: the failed append is logged and the handler carries on
OnLogEventErrorSwallowed(rq, t) ==
    Respond([rq EXCEPT !.audit_failed = TRUE], t)

\* an exception raised inside log_event: no handler catches it
OnLogEventError(rq, t) ==
    [Finish(rq, 500) EXCEPT !.audit_failed = TRUE, !.context = << >>]
\* ---------------------------------------------------------- initial state
NoTamper == [idx |-> 0, field |-> "none"]
NoProbe == [fn |-> "none", profile |-> None, scopes |-> << >>,
            called |-> FALSE, result |-> FALSE,
            rules_called |-> FALSE, rules |-> << >>]

\* the session row create_session stores
SessionRow(session_id, profile, expires_at, user_token, created_at) ==
    [id |-> session_id, profile |-> profile, expires_at |-> expires_at,
     user_token |-> user_token, created_at |-> created_at, revoked |-> FALSE]

\* no request in flight; the databases are empty or hold one earlier session
Init ==
    /\ now = 0
    /\ \/ sessions = << >> /\ audit_log = << >>
       \/ LET metadata == << <<"ttl_minutes", 1>> >>
          IN  /\ sessions = "s1" :> SessionRow("s1", "work", 1, MEDIATOR_PAT, 0)
              /\ audit_log =
                    <<NewRow(<< >>, EventData(0, "session_created", "s1", "work",
                                              metadata, None),
                             metadata, NoneHash)>>
    /\ req = [r \in Reqs |-> IdleReq]
    /\ started = 0
    /\ tampered = NoTamper
    /\ probe = NoProbe
    /\ environ \in {[MEDIATOR_PAT |-> MEDIATOR_PAT], [MEDIATOR_PAT |-> ""]}

\* slot r is taken by the next request: the lowest slot with no handler running
Free(r) == req[r].pc \in {"idle", "done"}
CanStart(r) ==
    /\ Free(r)
    /\ \A q \in Reqs : q < r => ~Free(q)
    /\ started < MaxOps

\* the request enters its handler: require_auth runs first
Enter(op, authorization) ==
    RequireAuth([IdleReq EXCEPT !.op = op, !.pc = "run",
                                !.authorization = authorization])

\* SessionRequest.ttl_minutes, Field(default=None, ge=1, le=1440): a request
\* with a value outside the range is answered 422 before the handler runs
\* (0 stands for a request without ttl_minutes)
TTL_MIN == 1
TTL_MAX == 1440
ValidTtl(ttl) == ttl = 0 \/ (ttl >= TTL_MIN /\ ttl <= TTL_MAX)

\* request.ttl_minutes or int(os.getenv("CONTEXT_TTL_MINUTES", "20"))
TtlMinutes(ttl, context_ttl_minutes) ==
    IF ttl # 0 THEN ttl ELSE context_ttl_minutes

\* POST /v1/session up to its log_event call
StartCreate(r, authorization, profile, ttl) ==
    /\ CanStart(r)
    /\ started' = started + 1
    /\ LET rq == Enter("create", authorization)
       IN  IF rq.pc = "done"
           THEN req' = [req EXCEPT ![r] = rq] /\ UNCHANGED sessions
           ELSE \E session_id \in SessionIds \ DOMAIN sessions :
                  LET ttl_minutes == TtlMinutes(ttl, CONTEXT_TTL_MINUTES)
                      expires_at == now + ttl_minutes
                      metadata == << <<"ttl_minutes", ttl_minutes>> >>
                  IN  /\ sessions' = sessions @@ (session_id :>
                            SessionRow(session_id, profile, expires_at, rq.token, now))
                      /\ req' = [req EXCEPT ![r] =
                            [rq EXCEPT !.session_id = session_id,
                                       !.profile = profile,
                                       !.expires_at = expires_at,
                                       !.metadata = metadata,
                                       !.ev = EventData(now, "session_created",
                                                 session_id, profile, metadata, None),
                                       !.pc = "audit_tail"]]
    /\ UNCHANGED <<now, audit_log, tampered, probe, environ>>

\* POST /v1/context up to its first get_scope_data call
StartContext(r, authorization, session_id, profile, scopes, prompt, collection_ok) ==
    /\ CanStart(r)
    /\ started' = started + 1
    /\ LET rq1 == Then(Enter("context", authorization),
                       LAMBDA q : [q EXCEPT !.session_id = session_id,
                                            !.profile = profile,
                                            !.scopes = scopes,
                                            !.prompt = prompt,
                                            !.chk = Observe(sessions, session_id, now)])
           rq2 == Then(rq1, LAMBDA q : ValidateSession(q, sessions, now))
           rq3 == Then(rq2, Authorize)
           rq4 == Then(rq3, LAMBDA q : GatherSemantic(q, collection_ok))
       IN  req' = [req EXCEPT ![r] = rq4]
    /\ UNCHANGED <<now, sessions, audit_log, tampered, probe, environ>>

\* POST /v1/context from the structured loop to its log_event call
ContextGather(r, structured_ok) ==
    /\ req[r].pc = "gather"
    /\ req' = [req EXCEPT ![r] =
          IF ~structured_ok /\ req[r].scopes # << >>
          THEN OnScopeDataError(req[r])
          ELSE GatherRedactBound(req[r], now)]
    /\ UNCHANGED <<now, sessions, audit_log, started, tampered, probe, environ>>

\* POST /v1/revoke up to its log_event call
StartRevoke(r, authorization, session_id) ==
    /\ CanStart(r)
    /\ started' = started + 1
    /\ LET rq == Enter("revoke", authorization)
           success == revoke_session_result(sessions, session_id)
       IN  IF rq.pc = "done"
           THEN req' = [req EXCEPT ![r] = rq] /\ UNCHANGED sessions
           ELSE /\ sessions' = revoke_session_table(sessions, session_id)
                /\ LET seen == [rq EXCEPT !.session_id = session_id,
                                          !.chk = Observe(sessions, session_id, now),
                                          !.success = success]
                   IN  req' = [req EXCEPT ![r] =
                          IF ~success THEN Reject(seen, 404)
                          ELSE [seen EXCEPT
                                  !.ev = EventData(now, "session_revoked",
                                             session_id, None, << >>, None),
                                  !.pc = "audit_tail"]]
    /\ UNCHANGED <<now, audit_log, tampered, probe, environ>>

\* faulty variant: the exported records are removed from the table
StartExportPurging(r, authorization, audit_ok) ==
    /\ CanStart(r)
    /\ started' = started + 1
    /\ LET rq == Enter("export", authorization)
           metadata == << <<"format", "json">>, <<"days", 7>> >>
       IN  /\ req' = [req EXCEPT ![r] =
                 IF rq.pc = "done" THEN rq
                 ELSE IF ~audit_ok THEN Reject(rq, 500)
                 ELSE [rq EXCEPT !.session_id = "admin", !.metadata = metadata,
                                 !.ev = EventData(now, "audit_exported", "admin",
                                                  None, metadata, None),
                                 !.pc = "audit_tail"]]
           /\ audit_log' = IF rq.pc # "done" /\ audit_ok THEN << >> ELSE audit_log
    /\ UNCHANGED <<now, sessions, tampered, probe, environ>>

\* POST /v1/audit/export up to its log_event call
StartExport(r, authorization, audit_ok) ==
    /\ CanStart(r)
    /\ started' = started + 1
    /\ LET rq == Enter("export", authorization)
           metadata == << <<"format", "json">>, <<"days", 7>> >>
       IN  req' = [req EXCEPT ![r] =
              IF rq.pc = "done" THEN rq
              ELSE IF ~audit_ok THEN Reject(rq, 500)
              ELSE [rq EXCEPT !.session_id = "admin", !.metadata = metadata,
                              !.ev = EventData(now, "audit_exported", "admin",
                                               None, metadata, None),
                              !.pc = "audit_tail"]]
    /\ UNCHANGED <<now, sessions, audit_log, tampered, probe, environ>>

\* log_event: timestamp taken, `await self._get_last_hash()`
LogEventTail(r, audit_ok) ==
    /\ req[r].pc = "audit_tail"
    /\ req' = [req EXCEPT ![r] =
          IF audit_ok
          THEN [req[r] EXCEPT !.previous_hash = _get_last_hash(audit_log),
                              !.pc = "audit_insert"]
          ELSE OnLogEventError(req[r], now)]
    /\ UNCHANGED <<now, sessions, audit_log, started, tampered, probe, environ>>

\* log_event: INSERT and commit; then the handler builds its response
LogEventInsert(r, audit_ok) ==
    /\ req[r].pc = "audit_insert"
    /\ IF audit_ok
       THEN /\ audit_log' = Append(audit_log,
                   NewRow(audit_log, req[r].ev, req[r].metadata, req[r].previous_hash))
            /\ req' = [req EXCEPT ![r] = Respond(req[r], now)]
       ELSE /\ req' = [req EXCEPT ![r] = OnLogEventError(req[r], now)]
            /\ UNCHANGED audit_log
    /\ UNCHANGED <<now, sessions, started, tampered, probe, environ>>

\* time passes
Tick ==
    /\ now < MaxTime
    /\ now' = now + 1
    /\ UNCHANGED <<sessions, audit_log, req, started, tampered, probe, environ>>

Next ==
    \/ \E r \in Reqs, authorization \in Authorizations, profile \in CreateProfiles, ttl \in TtlInputs :
          StartCreate(r, authorization, profile, ttl)
    \/ \E r \in Reqs, authorization \in Authorizations, session_id \in SessionIds \cup {UnknownSessionId},
          profile \in ContextProfiles, scopes \in ContextScopes,
          prompt \in ContextPrompts, collection_ok \in BOOLEAN :
          StartContext(r, authorization, session_id, profile, scopes, prompt, collection_ok)
    \/ \E r \in Reqs, structured_ok \in BOOLEAN : ContextGather(r, structured_ok)
    \/ \E r \in Reqs, authorization \in Authorizations, session_id \in SessionIds \cup {UnknownSessionId} :
          StartRevoke(r, authorization, session_id)
    \/ \E r \in Reqs, authorization \in Authorizations, audit_ok \in BOOLEAN :
          StartExport(r, authorization, audit_ok)
    \/ \E r \in Reqs, audit_ok \in BOOLEAN : LogEventTail(r, audit_ok)
    \/ \E r \in Reqs, audit_ok \in BOOLEAN : LogEventInsert(r, audit_ok)
    \/ Tick

Spec == Init /\ [][Next]_vars
\* ------ POST /v1/context with prompts of any length, one request at a time
NextContext ==
    \/ \E r \in {1}, authorization \in Authorizations, session_id \in SessionIds \cup {UnknownSessionId},
          profile \in ContextProfiles, scopes \in ContextScopes,
          prompt \in {Prompt, [i \in 1..(PromptPreviewLen + 1) |-> "p"]},
          collection_ok \in BOOLEAN :
          StartContext(r, authorization, session_id, profile, scopes, prompt, collection_ok)
    \/ \E r \in {1}, structured_ok \in BOOLEAN : ContextGather(r, structured_ok)
    \/ \E r \in {1}, audit_ok \in BOOLEAN : LogEventTail(r, audit_ok)
    \/ \E r \in {1}, audit_ok \in BOOLEAN : LogEventInsert(r, audit_ok)
    \/ Tick

SpecContext == Init /\ [][NextContext]_vars
\* ------- the four handlers one request at a time, and verify_integrity calls
\* AuditLogger.verify_integrity called on the log as it stands
VerifyIntegrityCall ==
    /\ probe' = [NoProbe EXCEPT !.fn = "verify_integrity", !.called = TRUE,
                                !.result = verify_integrity(audit_log).ok]
    /\ UNCHANGED <<now, sessions, audit_log, req, started, tampered, environ>>

NextLog ==
    \/ \E authorization \in Authorizations, profile \in CreateProfiles, ttl \in TtlInputs :
          StartCreate(1, authorization, profile, ttl)
    \/ \E authorization \in Authorizations, session_id \in SessionIds \cup {UnknownSessionId},
          profile \in ContextProfiles, scopes \in ContextScopes,
          prompt \in ContextPrompts, collection_ok \in BOOLEAN :
          StartContext(1, authorization, session_id, profile, scopes, prompt, collection_ok)
    \/ \E structured_ok \in BOOLEAN : ContextGather(1, structured_ok)
    \/ \E authorization \in Authorizations, session_id \in SessionIds \cup {UnknownSessionId} :
          StartRevoke(1, authorization, session_id)
    \/ \E authorization \in Authorizations, audit_ok \in BOOLEAN :
          StartExport(1, authorization, audit_ok)
    \/ \E audit_ok \in BOOLEAN : LogEventTail(1, audit_ok)
    \/ \E audit_ok \in BOOLEAN : LogEventInsert(1, audit_ok)
    \/ VerifyIntegrityCall
    \/ Tick

SpecLog == Init /\ [][NextLog]_vars
\* ------------------------------------------ load_policies called directly
MaxSources == 3
SectionNames == {"profiles", "scopes", "defaults"}

\* a top-level key of a policy document: absent or a mapping (a value that
\* dict.update rejects, like `scopes:` with nothing under it, is present and
\* not valid)
Absent == [present |-> FALSE, valid |-> TRUE, items |-> << >>]
Mapping(items) == [present |-> TRUE, valid |-> TRUE, items |-> items]

\* what yaml.safe_load makes of a policy file
Document(profiles_, scopes_, defaults_) ==
    [kind |-> "document", profiles |-> profiles_, scopes |-> scopes_,
     defaults |-> defaults_]
\* a file yaml.safe_load raises on
Malformed == [Document(Absent, Absent, Absent) EXCEPT !.kind = "malformed"]
BaseDocument ==
    Document(Mapping([work |-> [allowed_scopes |-> <<"bio.basic">>,
                                redactions |-> <<"mask_emails">>],
                      public |-> [allowed_scopes |-> <<"bio.basic">>]]),
             Mapping("bio.basic" :> "basic"),
             Mapping([ttl_minutes |-> 15]))
OverrideDocument ==
    Document(Mapping([work |-> [redactions |-> <<"drop_phone">>]]),
             Absent,
             Mapping([ttl_minutes |-> 30, max_tokens |-> 1]))

\* the base and the overriding document, a file yaml.safe_load raises on, a
\* file it returns None for, a document whose scopes key holds no mapping,
\* and a document with scopes only
DocumentSamples ==
    {BaseDocument, OverrideDocument, Malformed,
     [Document(Absent, Absent, Absent) EXCEPT !.kind = "empty"],
     Document(Mapping([work |-> [allowed_scopes |-> << >>]]),
              [present |-> TRUE, valid |-> FALSE, items |-> << >>],
              Mapping([ttl_minutes |-> 99])),
     Document(Absent,
              Mapping(("health.private" :> "private") @@ ("bio.basic" :> "other")),
              Absent)}

\* PolicyEngine.profiles, .scopes and .defaults after __init__
EmptyEngine == [profiles |-> << >>, scopes |-> << >>, defaults |-> << >>]

\* faulty variant: a key that is already set keeps its value
DictUpdateKeepsOld(current, items) == current @@ items

\* dict.update
DictUpdate(current, items) == items @@ current

\* the three `if key in policy_data: self.<key>.update(...)` statements, from
\* the one for section names[i]; an update that raises ends the file
RECURSIVE MergeFrom(_, _, _, _)
MergeFrom(engine, doc, names, i) ==
    IF i > Len(names) THEN engine
    ELSE LET section == doc[names[i]]
         IN  IF ~section.present THEN MergeFrom(engine, doc, names, i + 1)
             ELSE IF ~section.valid THEN engine
             ELSE MergeFrom([engine EXCEPT ![names[i]] = DictUpdate(@, section.items)],
                            doc, names, i + 1)

\* the loop of load_policies over the files, from file i: a file that does
\* not parse or is empty changes nothing
RECURSIVE LoadFrom(_, _, _)
LoadFrom(engine, sources, i) ==
    IF i > Len(sources) THEN engine
    ELSE LoadFrom(IF sources[i].kind # "document" THEN engine
                  ELSE MergeFrom(engine, sources[i],
                                 <<"profiles", "scopes", "defaults">>, 1),
                  sources, i + 1)

\* PolicyEngine.load_policies on a fresh engine; sources are the files in the
\* order glob yields them
load_policies(dir_exists, sources) ==
    IF ~dir_exists THEN EmptyEngine ELSE LoadFrom(EmptyEngine, sources, 1)

InitLoad ==
    /\ now = 0
    /\ sessions = << >>
    /\ audit_log = << >>
    /\ req = [r \in Reqs |-> IdleReq]
    /\ started = 0
    /\ tampered = NoTamper
    /\ environ = [MEDIATOR_PAT |-> MEDIATOR_PAT]
    /\ \E dir_exists \in BOOLEAN,
          sources \in UNION {[1..k -> DocumentSamples] : k \in 0..MaxSources} :
          probe = [fn |-> "load_policies", dir_exists |-> dir_exists,
                   sources |-> sources, called |-> FALSE, engine |-> EmptyEngine]

CallLoadPolicies ==
    /\ probe.fn = "load_policies"
    /\ ~probe.called
    /\ probe' = [probe EXCEPT !.called = TRUE,
                              !.engine = load_policies(probe.dir_exists, probe.sources)]
    /\ UNCHANGED <<now, sessions, audit_log, req, started, tampered, environ>>

NextLoad == CallLoadPolicies

SpecLoad == InitLoad /\ [][NextLoad]_vars
\* ------------------------------------------- the audit log used on its own
\* arguments of log_event: the four call sites of main.py and one call that
\* passes a caller identity and leaves every optional argument out
AuditSamples ==
    << [event_type |-> "session_created", session_id |-> "s1", profile |-> "work",
        metadata |-> << <<"ttl_minutes", 20>> >>, user_token |-> None],
       [event_type |-> "context_provided", session_id |-> "s1", profile |-> "work",
        metadata |-> << <<"scopes", <<"bio.basic">> >>, <<"prompt_preview", Prompt>>,
                        <<"context_size", 9>>, <<"citations_count", 1>> >>,
        user_token |-> None],
       [event_type |-> "session_revoked", session_id |-> "s2", profile |-> None,
        metadata |-> << >>, user_token |-> None],
       [event_type |-> "login", session_id |-> None, profile |-> None,
        metadata |-> NoMetadata, user_token |-> "test-token"] >>

InitAudit ==
    /\ now = 0
    /\ sessions = << >>
    /\ audit_log = << >>
    /\ req = [r \in Reqs |-> IdleReq]
    /\ started = 0
    /\ tampered = NoTamper
    /\ probe = NoProbe
    /\ environ = [MEDIATOR_PAT |-> MEDIATOR_PAT]

\* AuditLogger.log_event run to completion before the next call starts
log_event(i) ==
    /\ tampered = NoTamper
    /\ Len(audit_log) < MaxLog
    /\ LET a == AuditSamples[i]
           ev == EventData(now, a.event_type, a.session_id, a.profile,
                           a.metadata, a.user_token)
           previous_hash == _get_last_hash(audit_log)
       IN  audit_log' = Append(audit_log, NewRow(audit_log, ev, a.metadata, previous_hash))
    /\ UNCHANGED <<now, sessions, req, started, tampered, probe, environ>>

ForgedHash == << <<"forged", << >>, None, None, 0, NoneHash>> >>

\* the values an edit of the database file can put into a column
TamperValues(field) ==
    CASE field = "timestamp" -> 0..(MaxTime + 1)
      [] field = "event_type" -> {"session_created", "session_revoked"}
      [] field = "session_id" -> {None, "s1", "s2"}
      [] field = "profile" -> {None, "work", "public"}
      [] field = "user_token_hash" -> {NoneHash, UserTokenHash("bad-token")}
      [] field = "metadata" ->
             {NullText, JsonDumps(<< >>), JsonDumps(<< <<"ttl_minutes", 15>> >>)}
      [] field = "hash" ->
             {ForgedHash} \cup {audit_log[k].hash : k \in 1..Len(audit_log)}
      [] field = "previous_hash" ->
             {NoneHash, ForgedHash} \cup {audit_log[k].hash : k \in 1..Len(audit_log)}

\* one stored field of one record is changed behind the logger's back
TamperRow(i, field) ==
    /\ tampered = NoTamper
    /\ i \in 1..Len(audit_log)
    /\ \E value \in TamperValues(field) :
          /\ value # audit_log[i][field]
          /\ audit_log' = [audit_log EXCEPT ![i][field] = value]
    /\ tampered' = [idx |-> i, field |-> field]
    /\ UNCHANGED <<now, sessions, req, started, probe, environ>>

NextAudit ==
    \/ \E i \in 1..Len(AuditSamples) : log_event(i)
    \/ \E i \in 1..MaxLog,
          field \in {"timestamp", "event_type", "session_id", "profile",
                     "user_token_hash", "metadata", "hash", "previous_hash"} :
          TamperRow(i, field)
    \/ Tick

SpecAudit == InitAudit /\ [][NextAudit]_vars

\* ------------------------------------- the audit log with one record deleted
\* one record is deleted from the table behind the logger's back
RemoveRow(i) ==
    /\ tampered = NoTamper
    /\ Len(audit_log) >= 2
    /\ i \in 1..Len(audit_log)
    /\ audit_log' = SubSeq(audit_log, 1, i - 1)
                        \o SubSeq(audit_log, i + 1, Len(audit_log))
    /\ tampered' = [idx |-> i, field |-> "removed"]
    /\ UNCHANGED <<now, sessions, req, started, probe, environ>>

NextRemove ==
    \/ \E i \in 1..Len(AuditSamples) : log_event(i)
    \/ \E i \in 1..MaxLog : RemoveRow(i)
    \/ Tick

SpecRemove == InitAudit /\ [][NextRemove]_vars

\* -------------------------------------------- check_access called directly

InitPolicy ==
    /\ now = 0
    /\ sessions = << >>
    /\ audit_log = << >>
    /\ req = [r \in Reqs |-> IdleReq]
    /\ started = 0
    /\ tampered = NoTamper
    /\ environ = [MEDIATOR_PAT |-> MEDIATOR_PAT]
    /\ \/ \E profile \in ProfileNames,
                scopes \in UNION {[1..k -> ScopeNames] : k \in 0..MaxScopes} :
             probe = [NoProbe EXCEPT !.fn = "check_access", !.profile = profile,
                                     !.scopes = scopes]
       \/ \E profile \in ProfileNames :
             probe = [NoProbe EXCEPT !.fn = "get_redaction_rules",
                                     !.profile = profile]

CallCheckAccess ==
    /\ probe.fn = "check_access"
    /\ ~probe.called
    /\ probe' = [probe EXCEPT !.called = TRUE,
                              !.result = check_access(probe.profile, probe.scopes)]
    /\ UNCHANGED <<now, sessions, audit_log, req, started, tampered, environ>>

CallGetRedactionRules ==
    /\ probe.fn = "get_redaction_rules"
    /\ ~probe.rules_called
    /\ probe' = [probe EXCEPT !.rules_called = TRUE,
                              !.rules = get_redaction_rules(probe.profile)]
    /\ UNCHANGED <<now, sessions, audit_log, req, started, tampered, environ>>

NextPolicy == CallCheckAccess \/ CallGetRedactionRules

SpecPolicy == InitPolicy /\ [][NextPolicy]_vars
\* ---------------------------- redact and the size bound called directly
\* rule names a policy document can hold: three of the registry, the
\* sentinel of get_redaction_rules and the name only Presidio serves
RuleNames ==
    {"mask_emails", "drop_phone", "mask_credit_card", "mask_all", "presidio_full"}
RuleLists == UNION {[1..k -> RuleNames] : k \in 0..MaxRules}

\* texts handed to redact
TextSamples ==
    { << >>,
      <<"h", "i">>,
      EmailLit,
      <<"m", "e", " ">> \o EmailLit,
      PhoneLit,
      EmailLit \o PhoneLit,
      CardLit,
      <<"B", "o", " ", "s", "o", "n">>,
      <<"[", "E", "M", "A", "I", "L", "]">>,
      EmailLit \o <<" ">> \o EmailLit,
      <<"7", " ", "B", "o">>,
      <<"5">> \o UrlLit,
      <<"U+00E9", "U+00E9", "U+00E9", "U+00E9", "U+00E9">>,
      <<"a", "b", " ", "c", "d", " ", "e", "f", "g", "h", "i">>,
      <<"a", "b", "c", "d", "e", "f", "g", " ", "h", "i">>,
      <<"a", "b", "\n", "c", "d", "e", "f", "g", "h", "i">>,
      <<"a", "b", "\t", "c", "d", "e", "f", "g", "h", "i">>,
      AgeLit,
      DateLit }

InitRedact ==
    /\ now = 0
    /\ sessions = << >>
    /\ audit_log = << >>
    /\ req = [r \in Reqs |-> IdleReq]
    /\ started = 0
    /\ tampered = NoTamper
    /\ environ = [MEDIATOR_PAT |-> MEDIATOR_PAT]
    /\ \E text \in TextSamples, profile \in {"work", "public", "ghost"},
          rules \in RuleLists :
          probe = [fn |-> "redact", text |-> text, profile |-> profile,
                   rules |-> rules, called |-> FALSE, out |-> << >>,
                   again_called |-> FALSE, again |-> << >>,
                   bounded_called |-> FALSE, bounded |-> << >>]

\* redactor.redact(text, profile, redaction_rules)
CallRedact ==
    /\ probe.fn = "redact"
    /\ ~probe.called
    /\ probe' = [probe EXCEPT !.called = TRUE,
                              !.out = redact(probe.text, probe.profile, probe.rules)]
    /\ UNCHANGED <<now, sessions, audit_log, req, started, tampered, environ>>

\* redact applied to its own output, same profile and rules
CallRedactAgain ==
    /\ probe.fn = "redact"
    /\ probe.called
    /\ ~probe.again_called
    /\ ~probe.bounded_called
    /\ probe' = [probe EXCEPT !.again_called = TRUE,
                              !.again = redact(probe.out, probe.profile, probe.rules)]
    /\ UNCHANGED <<now, sessions, audit_log, req, started, tampered, environ>>

\* the size bound of get_context applied to the redacted text
CallEnforceSize ==
    /\ probe.fn = "redact"
    /\ probe.called
    /\ ~probe.again_called
    /\ ~probe.bounded_called
    /\ probe' = [probe EXCEPT !.bounded_called = TRUE,
                              !.bounded = EnforceSize(probe.out)]
    /\ UNCHANGED <<now, sessions, audit_log, req, started, tampered, environ>>

NextRedact == CallRedact \/ CallRedactAgain \/ CallEnforceSize

SpecRedact == InitRedact /\ [][NextRedact]_vars
\* ------------------------------------ the expiry create_session computes
\* ttl_minutes of the request: absent, below the range, in it, above it;
\* int(os.getenv("CONTEXT_TTL_MINUTES", "20")): unset, or set by the operator

InitTtl ==
    /\ now \in 0..MaxTime
    /\ sessions = << >>
    /\ audit_log = << >>
    /\ req = [r \in Reqs |-> IdleReq]
    /\ started = 0
    /\ tampered = NoTamper
    /\ environ = [MEDIATOR_PAT |-> MEDIATOR_PAT]
    /\ \E ttl \in {0, -1, 1, 15, TTL_MAX, TTL_MAX + 1},
          context_ttl_minutes \in {CONTEXT_TTL_MINUTES, 0, 5, 2000} :
          probe = [fn |-> "create_session", ttl_minutes |-> ttl,
                   context_ttl_minutes |-> context_ttl_minutes,
                   called |-> FALSE, status |-> 0]

\* POST /v1/session: request validation, then create_session up to the
\* commit of the session row
CallCreateSession ==
    /\ probe.fn = "create_session"
    /\ ~probe.called
    /\ IF ~ValidTtl(probe.ttl_minutes)
       THEN /\ probe' = [probe EXCEPT !.called = TRUE, !.status = 422]
            /\ UNCHANGED sessions
       ELSE LET ttl_minutes == TtlMinutes(probe.ttl_minutes, probe.context_ttl_minutes)
            IN  /\ sessions' = sessions @@ ("s1" :>
                      SessionRow("s1", "work", now + ttl_minutes, MEDIATOR_PAT, now))
                /\ probe' = [probe EXCEPT !.called = TRUE, !.status = 200]
    /\ UNCHANGED <<now, audit_log, req, started, tampered, environ>>

NextTtl == CallCreateSession

SpecTtl == InitTtl /\ [][NextTtl]_vars
\* ------------------------------- the gathering loops of get_context alone
\* results vector_store.search may hand to get_context: the documents of the
\* collection and a copy of the first one without its trailing blank; the
\* requested scopes include one without a scope_data row ("notes.misc")
InitGather ==
    /\ now = 0
    /\ sessions = << >>
    /\ audit_log = << >>
    /\ req = [r \in Reqs |-> IdleReq]
    /\ started = 0
    /\ tampered = NoTamper
    /\ environ = [MEDIATOR_PAT |-> MEDIATOR_PAT]
    /\ \E vector_results \in UNION {[1..k ->
                 { VectorDocs[1], VectorDocs[2],
                   [content |-> <<"m", "e", " ", "a", "@", "b", ".", "c", "o">>,
                    source |-> "notes/copy.md", scope |-> "bio.basic",
                    score |-> 3] }] : k \in 0..MaxResults},
          scopes \in UNION {[1..k -> ScopeNames \cup {"notes.misc"}] :
                               k \in 0..MaxScopes} :
          probe = [fn |-> "gather", vector_results |-> vector_results,
                   scopes |-> scopes, called |-> FALSE, acc |-> EmptyAcc]

\* get_context from `context_parts = []` to the end of the structured loop
CallGather ==
    /\ probe.fn = "gather"
    /\ ~probe.called
    /\ probe' = [probe EXCEPT
          !.called = TRUE,
          !.acc = GatherStructured(GatherVector(EmptyAcc, probe.vector_results, 1),
                                   probe.scopes, 1)]
    /\ UNCHANGED <<now, sessions, audit_log, req, started, tampered, environ>>

NextGather == CallGather

SpecGather == InitGather /\ [][NextGather]_vars
\* ------------------------------------------------------------------ claims
\* the value stored under key in a metadata dict
MetadataValue(md, key) == SelectSeq(md, LAMBDA p : p[1] = key)[1][2]

\* the set of a profile's allowed scopes, read off the policy document
AllowedSet(profile) ==
    IF profile \in DOMAIN profiles /\ "allowed_scopes" \in DOMAIN profiles[profile]
    THEN {profiles[profile].allowed_scopes[j] :
             j \in 1..Len(profiles[profile].allowed_scopes)}
    ELSE {}

\* a known profile is asked for at least one scope it is not allowed
Disallowed(profile, scopes) ==
    /\ profile \in DOMAIN profiles
    /\ \E i \in 1..Len(scopes) : scopes[i] \notin AllowedSet(profile)

\* C1: a context response carries content only after, in this order, the
\* session was validated, check_access returned true, the text was redacted,
\* the size bound was applied and a context_provided event was appended; a
\* request that did not get that far carries no content.
C1_PipelineOrder ==
    \A r \in Reqs :
        LET rq == req[r]
        IN  rq.op = "context" =>
              /\ rq.pc \in {"audit_tail", "audit_insert"} =>
                    rq.context = EnforceSize(redact(rq.raw_context, rq.profile,
                                                    get_redaction_rules(rq.profile)))
              /\ (rq.pc = "done" /\ ~rq.delivered) => rq.context = << >>
              /\ rq.context # << >> =>
                    /\ rq.chk.exists /\ ~rq.chk.revoked
                    /\ check_access(rq.profile, rq.scopes)
              /\ rq.delivered =>
                    /\ rq.steps = <<"authenticated", "session_validated", "authorized",
                                    "gathered", "redacted", "bounded", "audited",
                                    "returned">>
                    /\ \E i \in 1..Len(audit_log) :
                          /\ audit_log[i].event_type = "context_provided"
                          /\ audit_log[i].session_id = rq.session_id
                          /\ audit_log[i].profile = rq.profile
                          /\ MetadataValue(JsonLoadsOrEmpty(audit_log[i].metadata),
                                           "context_size") = Len(rq.context)

C1_Witness ==
    \E r \in Reqs :
        req[r].op = "context" /\ req[r].delivered /\ req[r].context # << >>

\* C2: every stored record's previous_hash is the hash of the record stored
\* immediately before it, and no two records share a previous_hash, also
\* when appends run concurrently.
C2_ChainNeverForks ==
    /\ \A i \in 1..Len(audit_log) :
          audit_log[i].previous_hash =
              (IF i = 1 THEN NoneHash ELSE audit_log[i - 1].hash)
    /\ \A i, j \in 1..Len(audit_log) :
          i # j => audit_log[i].previous_hash # audit_log[j].previous_hash

\* C3: after any sequence of appends that ran one after the other on an
\* empty log, verify_integrity() returns true.
C3_SequentialAppendsVerify ==
    tampered = NoTamper => verify_integrity(audit_log).ok

C3_Witness ==
    /\ tampered = NoTamper
    /\ Len(audit_log) >= 3
    /\ audit_log[1].event_type # audit_log[2].event_type
    /\ audit_log[3].user_token_hash # NoneHash

\* C4: changing one stored field of one record makes verify_integrity()
\* return false and name the changed record.
C4_AnyTamperFlagged ==
    tampered # NoTamper =>
        /\ ~verify_integrity(audit_log).ok
        /\ verify_integrity(audit_log).entry = audit_log[tampered.idx].id

\* C5: check_access returns true exactly when the profile is in the policy
\* document and every requested scope is among its allowed scopes.
C5_CheckAccessIff ==
    probe.called =>
        (probe.result <=>
            /\ probe.profile \in DOMAIN profiles
            /\ \A i \in 1..Len(probe.scopes) :
                  probe.scopes[i] \in AllowedSet(probe.profile))

C5_Witness ==
    /\ probe.called
    /\ probe.result
    /\ Len(probe.scopes) >= 2
    /\ probe.scopes[1] # probe.scopes[2]

\* C6: a context request passes session validation exactly when the session
\* exists, is not revoked and now < expires_at.
C6_UsableIffBeforeExpiry ==
    \A r \in Reqs :
        (req[r].op = "context" /\ req[r].status # 401) =>
            (InSeq("session_validated", req[r].steps) <=>
                /\ req[r].chk.exists
                /\ ~req[r].chk.revoked
                /\ req[r].chk.at < req[r].chk.expires_at)

\* C7: a revoked session stays revoked, get_session returns nothing for it,
\* and a context request that finds the session revoked is rejected.
C7_RevokedIsTerminal ==
    /\ [][\A id \in DOMAIN sessions :
             sessions[id].revoked =>
                /\ id \in DOMAIN sessions'
                /\ sessions'[id].revoked
                /\ get_session(sessions', id) = << >>]_vars
    /\ [](\A r \in Reqs :
             (req[r].op = "context" /\ req[r].chk.exists /\ req[r].chk.revoked) =>
                /\ req[r].pc = "done"
                /\ req[r].status = 404
                /\ ~req[r].delivered
                /\ req[r].context = << >>)

C7_Witness ==
    \E r \in Reqs :
        /\ req[r].op = "context"
        /\ req[r].chk.exists
        /\ req[r].chk.revoked
        /\ req[r].status = 404

\* C8: revoke returns true exactly when the session exists and is not
\* already revoked.
C8_RevokeTrueOnlyOnce ==
    \A r \in Reqs :
        (req[r].op = "revoke" /\ req[r].status # 401) =>
            (req[r].success <=> (req[r].chk.exists /\ ~req[r].chk.revoked))

\* C9: a context request whose audit append failed ends with an error and
\* carries no content.
C9_AuditFailureIsFatal ==
    \A r \in Reqs :
        (req[r].op = "context" /\ req[r].audit_failed) =>
            /\ req[r].pc = "done"
            /\ req[r].status = 500
            /\ ~req[r].delivered
            /\ req[r].context = << >>

C9_Witness ==
    \E r \in Reqs :
        /\ req[r].op = "context"
        /\ req[r].audit_failed
        /\ InSeq("bounded", req[r].steps)

\* C10: a context request on a valid session that asks for a scope outside
\* the profile's allowed scopes ends with 403 and no content, and no
\* context_provided record exists for such a request.
C10_ForbiddenScopesRejected ==
    /\ \A r \in Reqs :
          (/\ req[r].op = "context"
           /\ InSeq("session_validated", req[r].steps)
           /\ Disallowed(req[r].profile, req[r].scopes)) =>
              /\ req[r].pc = "done"
              /\ req[r].status = 403
              /\ ~req[r].delivered
              /\ req[r].context = << >>
              /\ ~InSeq("audited", req[r].steps)
    /\ \A i \in 1..Len(audit_log) :
          audit_log[i].event_type = "context_provided" =>
              ~Disallowed(audit_log[i].profile,
                          MetadataValue(JsonLoadsOrEmpty(audit_log[i].metadata), "scopes"))

C10_Witness ==
    \E r \in Reqs :
        /\ req[r].op = "context"
        /\ req[r].status = 403
        /\ Disallowed(req[r].profile, req[r].scopes)

\* C11: an authenticated context request that finds the session present, not
\* revoked and past its expires_at ends with 410 (Expired); one that finds the
\* session missing or revoked ends with 404 (NotFound); neither carries
\* content.
C11_ExpiredAndNotFoundDistinct ==
    \A r \in Reqs :
        (req[r].op = "context" /\ InSeq("authenticated", req[r].steps)) =>
            /\ (/\ req[r].chk.exists
                /\ ~req[r].chk.revoked
                /\ req[r].chk.expires_at < req[r].chk.at) =>
                   /\ req[r].pc = "done"
                   /\ req[r].status = 410
                   /\ ~req[r].delivered
                   /\ req[r].context = << >>
            /\ (~req[r].chk.exists \/ req[r].chk.revoked) =>
                   /\ req[r].pc = "done"
                   /\ req[r].status = 404
                   /\ ~req[r].delivered
                   /\ req[r].context = << >>

C11_Witness ==
    \E r \in Reqs :
        /\ req[r].op = "context"
        /\ req[r].status = 410
        /\ req[r].chk.exists
        /\ req[r].chk.expires_at < req[r].chk.at

\* C12: whenever the redacted text is longer than the ceiling in bytes, the
\* text the size bound returns, ellipsis included, is at most the ceiling
\* in bytes.
C12_BoundedWithinCeiling ==
    (probe.bounded_called /\ ByteLen(probe.out) > MAX_CONTEXT_BYTES) =>
        ByteLen(probe.bounded) <= MAX_CONTEXT_BYTES

\* in this step the handler of slot r answers 200 to a request of kind op
Completes(r, op) ==
    /\ req[r].pc # "done"
    /\ req'[r].pc = "done"
    /\ req'[r].status = 200
    /\ req'[r].op = op

\* a step adds exactly one record of type event_type, carrying the session
\* id of the request that completes, when a request of kind op completes
\* with 200, and adds or changes no record of that type otherwise
OneRecordPerSuccess(op, event_type) ==
    LET before == SelectSeq(audit_log, LAMBDA row : row.event_type = event_type)
        after == SelectSeq(audit_log', LAMBDA row : row.event_type = event_type)
    IN  IF \E r \in Reqs : Completes(r, op)
        THEN \E r \in Reqs :
                /\ Completes(r, op)
                /\ Len(after) = Len(before) + 1
                /\ SubSeq(after, 1, Len(before)) = before
                /\ after[Len(after)].session_id = req'[r].session_id
        ELSE after = before

\* C13: every session creation answered with 200 has added exactly one
\* session_created record and every delivered context response exactly one
\* context_provided record, each with the request's session_id; no other
\* step, in particular no rejected request, adds a record of these types.
C13_OneAuditRecordPerSuccess ==
    [][/\ OneRecordPerSuccess("create", "session_created")
       /\ OneRecordPerSuccess("context", "context_provided")]_vars

C13_Witness ==
    \E r \in Reqs :
        /\ req[r].op = "context"
        /\ req[r].delivered
        /\ Len(audit_log) = 2
        /\ audit_log[1].event_type = "session_created"
        /\ audit_log[1].session_id = req[r].session_id
        /\ audit_log[2].event_type = "context_provided"
        /\ audit_log[2].session_id = req[r].session_id

\* C14: the expires_at of a delivered context response is the expires_at of
\* the session the request was made on.
C14_ResponseExpiryIsSessionExpiry ==
    \A r \in Reqs :
        (req[r].op = "context" /\ req[r].delivered) =>
            req[r].expires_at = sessions[req[r].session_id].expires_at

\* C15: get_redaction_rules returns the rule list the policy document gives
\* the profile, in its order, when the document has the profile, and the
\* one-element list <<"mask_all">> when it has not; never the empty list
\* for an unknown profile.
C15_RulesOrSentinel ==
    probe.rules_called =>
        IF probe.profile \in DOMAIN profiles
        THEN /\ Len(probe.rules) = Len(profiles[probe.profile].redactions)
             /\ \A i \in 1..Len(probe.rules) :
                   probe.rules[i] = profiles[probe.profile].redactions[i]
        ELSE /\ probe.rules = <<"mask_all">>
             /\ probe.rules # << >>

C15_Witness ==
    /\ probe.rules_called
    /\ probe.profile \notin DOMAIN profiles
    /\ probe.rules = <<"mask_all">>

\* the rule names of a list that the registry holds, in the list's order
KnownOnly(rules) == SelectSeq(rules, LAMBDA rule : rule \in DOMAIN redaction_patterns)

C17_RedactIdempotent ==
    probe.again_called => probe.again = probe.out

\* lit occurs somewhere in text
Contains(text, lit) == \E i \in 1..Len(text) : StartsWith(text, i, lit)

\* the pattern matches somewhere in text
Occurs(pattern, text) ==
    \E i \in 1..Len(text), l \in pattern.matches : MatchAt(pattern, text, i, l)

\* the substrings of text that the pattern matches, found as re.sub finds them
RECURSIVE MatchedFrom(_, _, _)
MatchedFrom(pattern, text, i) ==
    IF i > Len(text) THEN {}
    ELSE LET found == {l \in pattern.matches : MatchAt(pattern, text, i, l)}
         IN  IF found # {}
             THEN LET l == CHOOSE m \in found : \A k \in found : Len(k) <= Len(m)
                  IN  {l} \cup MatchedFrom(pattern, text, i + Len(l))
             ELSE MatchedFrom(pattern, text, i + 1)

\* the patterns redact applies on account of the profile alone
ProfilePatterns(profile) ==
    IF profile = "work" THEN {DatePattern, AgePattern, FamilyPattern}
    ELSE IF profile = "public" THEN {NumberPattern, NamePattern, UrlPattern}
    ELSE {}

C19_NoRawCredentialStored ==
    /\ \A r \in Reqs :
          (req[r].op = "create" /\ req[r].session_id \in DOMAIN sessions) =>
              sessions[req[r].session_id].user_token # req[r].token
    /\ \A i \in 1..Len(audit_log) :
          \/ audit_log[i].user_token_hash = NoneHash
          \/ \E token \in Tokens : audit_log[i].user_token_hash = UserTokenHash(token)

\* the header carries the credential the environment expects
ValidCredential(authorization) ==
    /\ environ.MEDIATOR_PAT # ""
    /\ authorization = <<"Bearer", environ.MEDIATOR_PAT>>

\* in this step a request enters slot r
StartsRequest(r) ==
    /\ req[r].pc \in {"idle", "done"}
    /\ req'[r] # req[r]

\* the request entering slot r is rejected with one of the codes before any
\* store or backend is touched
RejectedUntouched(r, codes) ==
    /\ req'[r].pc = "done"
    /\ req'[r].status \in codes
    /\ sessions' = sessions
    /\ audit_log' = audit_log
    /\ req'[r].steps = << >>
    /\ req'[r].chk = NoCheck
    /\ req'[r].acc = EmptyAcc
    /\ req'[r].context = << >>
    /\ ~req'[r].delivered
    /\ ~req'[r].success

\* C20 as stated: every operation invoked with a missing or invalid
\* credential, or with any credential when none is configured, is rejected
\* as Unauthenticated (401) with the session store and the audit log
\* unchanged and no backend queried.
C20_RejectedAsUnauthenticated ==
    [][\A r \in Reqs :
          (StartsRequest(r) /\ ~ValidCredential(req'[r].authorization)) =>
              RejectedUntouched(r, {401})]_vars

\* C20 as amended: such a request is rejected before any store is accessed,
\* with 422 when the Authorization header is missing and with 401 when the
\* header is not a Bearer header, the token is wrong or no expected
\* credential is configured.
C20_RejectedBeforeStoreAccess ==
    [][\A r \in Reqs :
          (StartsRequest(r) /\ ~ValidCredential(req'[r].authorization)) =>
              RejectedUntouched(r, IF req'[r].authorization = NoHeader
                                   THEN {422} ELSE {401})]_vars

C20_Witness ==
    /\ environ.MEDIATOR_PAT = ""
    /\ sessions # << >>
    /\ \A id \in DOMAIN sessions : ~sessions[id].revoked
    /\ \E r \in Reqs :
          /\ req[r].op = "revoke"
          /\ req[r].authorization = <<"Bearer", "test-token">>
          /\ req[r].pc = "done"
          /\ req[r].status = 401

\* C21: an unavailable retrieval backend is not fatal.  A context request on
\* a valid, authorized session that found the semantic or the structured
\* backend unavailable (and the other one available), and whose audit append
\* did not fail, ends with 200 and the context built from the fragments of
\* the other backend.
C21_BackendDegradedNonFatal ==
    \A r \in Reqs :
        (/\ req[r].op = "context"
         /\ req[r].pc = "done"
         /\ req[r].degraded \in {{"semantic"}, {"structured"}}
         /\ ~req[r].audit_failed) =>
            LET semantic == IF "semantic" \in req[r].degraded THEN EmptyAcc
                            ELSE GatherVector(EmptyAcc, search(TRUE, req[r].scopes, 5), 1)
                available == IF "structured" \in req[r].degraded THEN semantic
                             ELSE GatherStructured(semantic, req[r].scopes, 1)
            IN  /\ req[r].status = 200
                /\ req[r].delivered
                /\ req[r].context =
                       EnforceSize(redact(Join(available.context_parts),
                                          req[r].profile,
                                          get_redaction_rules(req[r].profile)))

\* C22: every fragment returned by a context request was retrieved from a
\* scope in the allowed_scopes of the profile of the request, also when the
\* list of requested scopes is empty.  The scope a cited fragment was
\* retrieved from is the scope of the document of the collection, or the
\* scope named in a structured citation.
C22_FragmentsFromAllowedScopes ==
    [][\A r \in Reqs :
          Completes(r, "context") =>
              \A i \in 1..Len(req[r].acc.citations) :
                  LET citation == req[r].acc.citations[i]
                      scope ==
                          IF citation.type = "vector"
                          THEN VectorDocs[CHOOSE k \in 1..Len(VectorDocs) :
                                   VectorDocs[k].source = citation.ref].scope
                          ELSE CHOOSE name \in ScopeNames :
                                   ScopeRef(name) = citation.ref
                  IN  scope \in AllowedSet(req'[r].profile)]_vars

\* C23: a context request whose profile differs from the profile stored in
\* its session is rejected like a request for a session that does not exist
\* (404; 410 when the session has also expired), and a delivered context was
\* authorized and redacted under the session's profile.
C23_SessionProfileEnforced ==
    \A r \in Reqs :
        /\ (/\ req[r].op = "context"
            /\ req[r].token # None
            /\ req[r].session_id \in DOMAIN sessions
            /\ sessions[req[r].session_id].profile # req[r].profile) =>
              /\ req[r].pc = "done"
              /\ req[r].status \in {404, 410}
              /\ ~req[r].delivered
        /\ (req[r].op = "context" /\ req[r].delivered) =>
              sessions[req[r].session_id].profile = req[r].profile

\* C24: no context response is delivered for a session after a revoke of
\* that session has returned true, also when the context request had passed
\* session validation before the revoke and was suspended at a retrieval or
\* audit call.
C24_NoDeliveryAfterRevoke ==
    [][\A r \in Reqs :
          Completes(r, "context") =>
              ~\E q \in Reqs :
                  /\ req[q].op = "revoke"
                  /\ req[q].success
                  /\ req[q].session_id = req'[r].session_id]_vars

\* C25: a context request rejected at session validation or at
\* authorization (404, 410 or 403) is rejected in the step in which it
\* enters its handler, with the session store and the audit log exactly as
\* before, no retrieval backend queried and no content in the response.
C25_RejectionHasNoSideEffects ==
    [][\A r \in Reqs :
          (/\ req'[r] # req[r]
           /\ req'[r].op = "context"
           /\ req'[r].pc = "done"
           /\ req'[r].status \in {404, 410, 403}) =>
              /\ StartsRequest(r)
              /\ sessions' = sessions
              /\ audit_log' = audit_log
              /\ req'[r].queried = {}
              /\ req'[r].context = << >>
              /\ ~req'[r].delivered]_vars

C25_Witness ==
    /\ \E id \in DOMAIN sessions : ~sessions[id].revoked
    /\ audit_log # << >>
    /\ req[1].op = "context" /\ req[1].pc = "done" /\ req[1].status = 200
    /\ req[2].op = "context" /\ req[2].pc = "done" /\ req[2].status = 403
    /\ req[2].steps = <<"authenticated", "session_validated">>

\* C26: a request that failed because its audit append failed leaves the
\* session store unchanged: the session of a failed create request is not
\* in the store, and the session a failed revoke request found not revoked
\* is still not revoked.
C26_AuditFailureLeavesStoreUnchanged ==
    \A r \in Reqs :
        (req[r].pc = "done" /\ req[r].audit_failed) =>
            /\ req[r].op = "create" => req[r].session_id \notin DOMAIN sessions
            /\ (req[r].op = "revoke" /\ ~req[r].chk.revoked) =>
                  ~sessions[req[r].session_id].revoked

\* the rows of the requested scopes that have one, from scope i on, each with
\* the citation it would get
RECURSIVE StructuredCandidates(_, _)
StructuredCandidates(scopes, i) ==
    IF i > Len(scopes) THEN << >>
    ELSE (IF get_scope_data(scopes[i]) # << >>
          THEN << [content |-> get_scope_data(scopes[i])[1],
                   citation |-> [type |-> "structured", ref |-> ScopeRef(scopes[i])]] >>
          ELSE << >>) \o StructuredCandidates(scopes, i + 1)

\* C27: the gathered fragments hold no two entries with equal trimmed
\* content; they are the first occurrences of what the backends returned,
\* semantic results first (in result order) and then structured results in
\* requested-scope order, and the citations are those of the kept
\* fragments, one each, in the same order.
C27_FirstSeenFragments ==
    probe.called =>
        LET cands == [i \in 1..Len(probe.vector_results) |->
                        [content |-> probe.vector_results[i].content,
                         citation |-> [type |-> "vector",
                                       ref |-> probe.vector_results[i].source,
                                       score |-> probe.vector_results[i].score]]]
                        \o StructuredCandidates(probe.scopes, 1)
            Nth(positions, k) ==
                CHOOSE i \in positions : Cardinality({j \in positions : j < i}) = k - 1
            keep == {i \in 1..Len(cands) :
                        \A j \in 1..(i - 1) :
                            Strip(cands[j].content) # Strip(cands[i].content)}
            parts == probe.acc.context_parts
            cites == probe.acc.citations
        IN  /\ \A i, j \in 1..Len(parts) :
                   Strip(parts[i]) = Strip(parts[j]) => i = j
            /\ Len(parts) = Cardinality(keep)
            /\ Len(cites) = Len(parts)
            /\ \A k \in 1..Len(parts) :
                   /\ parts[k] = cands[Nth(keep, k)].content
                   /\ cites[k] = cands[Nth(keep, k)].citation

C27_Witness ==
    /\ probe.called
    /\ probe.vector_results = <<VectorDocs[1], VectorDocs[2]>>
    /\ probe.scopes = <<"projects.recent", "bio.basic", "projects.recent">>
    /\ Len(probe.acc.context_parts) = 3
    /\ probe.acc.citations[3].type = "structured"

\* C28: when the redacted text exceeds the ceiling, the returned text is
\* its prefix up to the last whitespace boundary (space, newline or tab) at
\* or before the ceiling, followed by the ellipsis marker.  A cut after the
\* first k characters falls on a whitespace boundary and keeps at most
\* MAX_CONTEXT_BYTES bytes.
C28_CutAtWhitespaceBoundary ==
    (probe.bounded_called /\ ByteLen(probe.out) > MAX_CONTEXT_BYTES) =>
        LET text == probe.out
            BoundaryCut(k) ==
                /\ k < Len(text)
                /\ ByteLen(Slice(text, k)) <= MAX_CONTEXT_BYTES
                /\ k = 0 \/ IsSpace(text[k + 1])
            last == CHOOSE k \in 0..Len(text) :
                        /\ BoundaryCut(k)
                        /\ \A j \in (k + 1)..Len(text) : ~BoundaryCut(j)
        IN  probe.bounded = Slice(text, last) \o <<".", ".", ".">>

\* C29: redact returns the same output for any two rule lists that are
\* permutations of each other, whatever the text and the profile.
C29_RuleOrderIrrelevant ==
    probe.called =>
        \A other \in RuleLists :
            (/\ Len(probe.rules) = Len(other)
             /\ \A name \in RuleNames :
                   Cardinality({i \in 1..Len(probe.rules) : probe.rules[i] = name})
                       = Cardinality({i \in 1..Len(other) : other[i] = name})) =>
                redact(probe.text, probe.profile, other) = probe.out

\* C30: redacting with the rule list returned for an unknown profile masks
\* every match of every registry rule: no substring of the input that a
\* registry pattern matches is left in the output.
C30_SentinelRedactsEverything ==
    (/\ probe.called
     /\ probe.profile \notin DOMAIN profiles
     /\ probe.rules = get_redaction_rules(probe.profile)) =>
        \A name \in DOMAIN redaction_patterns :
            \A l \in MatchedFrom(redaction_patterns[name].pattern, probe.text, 1) :
                ~Contains(probe.out, l)

\* expires_at - creation time of a stored session, in minutes
EffectiveTtl(id) == sessions[id].expires_at - sessions[id].created_at

\* C31: a session created without an explicit TTL expires at creation time +
\* the policy engine's default TTL (defaults.ttl_minutes of the loaded
\* policy document); with an explicit TTL, at creation time + that TTL.
C31_DefaultTtlFromPolicy ==
    (probe.called /\ probe.status = 200) =>
        /\ "s1" \in DOMAIN sessions
        /\ sessions["s1"].created_at = now
        /\ EffectiveTtl("s1") = (IF probe.ttl_minutes = 0 THEN get_default_ttl
                                 ELSE probe.ttl_minutes)

\* C32: whatever TTL the request carries and whatever the configured
\* default, a session is created and its effective ttl lies in
\* [1, 1440] minutes; an explicit TTL outside the range is clamped to the
\* nearest bound.
C32_TtlWithinBounds ==
    /\ \A id \in DOMAIN sessions :
          EffectiveTtl(id) >= TTL_MIN /\ EffectiveTtl(id) <= TTL_MAX
    /\ (probe.called /\ probe.ttl_minutes # 0) =>
          /\ "s1" \in DOMAIN sessions
          /\ EffectiveTtl("s1") =
                (IF probe.ttl_minutes < TTL_MIN THEN TTL_MIN
                 ELSE IF probe.ttl_minutes > TTL_MAX THEN TTL_MAX
                 ELSE probe.ttl_minutes)

\* C33: the profile pass runs after the rule pass for every rule list, the
\* empty one included: with profile "work" no age, date of birth or family
\* term of the input is left in the output, with profile "public" no bare
\* number, capitalized word or URL of the input; for any other profile the
\* output is that of the rule pass alone.
C33_ProfilePassAlwaysRuns ==
    probe.called =>
        /\ \A pattern \in ProfilePatterns(probe.profile) :
              \A l \in MatchedFrom(pattern, probe.text, 1) :
                  ~Contains(probe.out, l)
        /\ probe.profile \notin {"work", "public"} =>
              probe.out = ApplyRulesFrom(probe.text, probe.rules, 1)

C33_Witness ==
    /\ probe.called
    /\ probe.profile = "work"
    /\ probe.rules = << >>
    /\ probe.text = AgeLit
    /\ probe.out = <<"[", "A", "G", "E", "]">>

\* C34: the metadata of a context_provided record is the requested scope
\* list, the first 100 characters of the prompt (the whole prompt when it is
\* shorter), the length of the text the response returns and the number of
\* citations, under these four keys and no other; no gathered fragment and
\* not the joined unredacted text occurs in the preview.  The record is the
\* one a context request at its INSERT adds to the log.
C34_ContextRecordMetadata ==
    [][\A r \in Reqs :
          (/\ req[r].op = "context"
           /\ req[r].pc = "audit_insert"
           /\ Len(audit_log') = Len(audit_log) + 1) =>
              LET row == audit_log'[Len(audit_log')]
                  md == JsonLoadsOrEmpty(row.metadata)
              IN  /\ row.event_type = "context_provided"
                  /\ Len(md) = 4
                  /\ md[1] = <<"scopes", req[r].scopes>>
                  /\ md[2][1] = "prompt_preview"
                  /\ Len(md[2][2]) <= 100
                  /\ md[2][2] = SubSeq(req[r].prompt, 1, Len(md[2][2]))
                  /\ Len(md[2][2]) < 100 => md[2][2] = req[r].prompt
                  /\ md[3] = <<"context_size", Len(req'[r].context)>>
                  /\ req'[r].delivered /\ req'[r].status = 200
                  /\ md[4] = <<"citations_count", Len(req[r].acc.citations)>>
                  /\ \A i \in 1..Len(req[r].acc.context_parts) :
                        ~Contains(md[2][2], req[r].acc.context_parts[i])
                  /\ req[r].raw_context # << >> =>
                        ~Contains(md[2][2], req[r].raw_context)
    ]_vars

C34_Witness ==
    /\ audit_log # << >>
    /\ LET row == audit_log[Len(audit_log)]
           md == JsonLoadsOrEmpty(row.metadata)
       IN  /\ row.event_type = "context_provided"
           /\ Len(md[2][2]) = 100
           /\ md[3][2] > 0
           /\ md[4][2] > 0
           /\ req[1].op = "context" /\ req[1].status = 200
           /\ md[3][2] = Len(req[1].context)

\* record i of rows meets the conditions of the chain: record 1 has no
\* previous hash; a later record stores the hash of its own fields chained
\* to its predecessor's hash, and stores its predecessor's hash
Conforms(rows, i) ==
    IF i = 1 THEN rows[1].previous_hash = NoneHash
    ELSE /\ rows[i].hash = _calculate_hash(RowEventData(rows[i]), rows[i - 1].hash)
         /\ rows[i].previous_hash = rows[i - 1].hash

\* C35: verify_integrity returns true exactly when every record conforms
\* (an empty log has none), and when it returns false the entry it names is
\* the first record, in insertion order, that does not conform.
C35_VerifyIntegrityIff ==
    LET v == verify_integrity(audit_log)
        bad == {i \in 1..Len(audit_log) : ~Conforms(audit_log, i)}
    IN  /\ v.ok <=> bad = {}
        /\ ~v.ok => \E i \in bad :
                       /\ \A j \in bad : i <= j
                       /\ v.entry = audit_log[i].id

C35_Witness ==
    /\ Len(audit_log) = 3
    /\ tampered = [idx |-> 1, field |-> "hash"]
    /\ {i \in 1..Len(audit_log) : ~Conforms(audit_log, i)} = {2}
    /\ verify_integrity(audit_log) = [ok |-> FALSE, entry |-> audit_log[2].id]

\* C36: every step leaves the records already in the log in place and
\* unchanged (the log only grows at its end), record ids increase strictly in
\* insertion order, and the steps in which export_logs or verify_integrity
\* run leave the log exactly as it was.
C36_AuditLogAppendOnly ==
    [][/\ Len(audit_log) <= Len(audit_log')
       /\ SubSeq(audit_log', 1, Len(audit_log)) = audit_log
       /\ \A i \in 1..Len(audit_log') : \A j \in 1..Len(audit_log') :
             i < j => audit_log'[i].id < audit_log'[j].id
       /\ \A r \in Reqs :
             (StartsRequest(r) /\ req'[r].op = "export") => audit_log' = audit_log
       /\ (probe'.fn = "verify_integrity" /\ probe' # probe) =>
             audit_log' = audit_log
    ]_vars

C36_Witness ==
    /\ Len(audit_log) = 3
    /\ audit_log[2].event_type = "audit_exported"
    /\ audit_log[3].event_type = "session_revoked"
    /\ probe.fn = "verify_integrity" /\ probe.result
    /\ req[1].op = "revoke" /\ req[1].status = 200

\* C37: after any one record (the first, a middle or the last) is removed
\* from a log of two or more records, verify_integrity returns false.
C37_RemovalDetected ==
    tampered.field = "removed" => ~verify_integrity(audit_log).ok

\* C38: every session row stays in the table with the columns written at
\* creation unchanged; revoked changes only from false to true; each row is
\* stored under its own id, so no two rows share one, and a create request
\* leaves every existing row as it was.
C38_SessionsOnlyEverRevoked ==
    /\ [](\A id \in DOMAIN sessions : sessions[id].id = id)
    /\ [][\A id \in DOMAIN sessions :
             /\ id \in DOMAIN sessions'
             /\ \A column \in {"id", "profile", "created_at", "expires_at",
                                "user_token"} :
                   sessions'[id][column] = sessions[id][column]
             /\ sessions[id].revoked => sessions'[id].revoked
             /\ (\E r \in Reqs : StartsRequest(r) /\ req'[r].op = "create")
                    => sessions'[id] = sessions[id]
       ]_vars

C38_Witness ==
    /\ DOMAIN sessions = {"s1", "s2"}
    /\ sessions["s1"].revoked
    /\ ~sessions["s2"].revoked
    /\ sessions["s1"].created_at < sessions["s2"].created_at
    /\ \E r \in Reqs : req[r].op = "create" /\ req[r].status = 200
                         /\ req[r].session_id = "s2"

\* load_policies processes the source without an exception
Loads(doc) ==
    /\ doc.kind # "malformed"
    /\ \A name \in SectionNames : doc[name].valid

\* the keys some source that loads defines in section name
KeysOfLoaded(sources, name) ==
    UNION {DOMAIN sources[i][name].items :
              i \in {j \in 1..Len(sources) : Loads(sources[j])}}

\* C39: after load_policies, in each of profiles, scopes and defaults, every
\* key defined by a source that loads is present; a key whose last definer
\* loads maps to exactly the value that source gives (nothing of an earlier
\* value is merged in); in any case a key maps to the value of a source not
\* earlier than the last loading source that defines it; and when every
\* source loads the keys are exactly those the sources define.
C39_LastWriteWinsPerKey ==
    (probe.called /\ probe.dir_exists) =>
        \A name \in SectionNames :
            LET sources == probe.sources
                merged == probe.engine[name]
            IN  /\ KeysOfLoaded(sources, name) \subseteq DOMAIN merged
                /\ \A k \in KeysOfLoaded(sources, name) :
                      LET all == {i \in 1..Len(sources) :
                                     /\ sources[i].kind = "document"
                                     /\ sources[i][name].valid
                                     /\ k \in DOMAIN sources[i][name].items}
                          loaded == {i \in all : Loads(sources[i])}
                          last == CHOOSE i \in all : \A j \in all : j <= i
                          last_loaded == CHOOSE i \in loaded : \A j \in loaded : j <= i
                      IN  /\ Loads(sources[last]) =>
                                merged[k] = sources[last][name].items[k]
                          /\ \E i \in all :
                                /\ i >= last_loaded
                                /\ merged[k] = sources[i][name].items[k]
                /\ (\A i \in 1..Len(sources) : Loads(sources[i])) =>
                      DOMAIN merged = KeysOfLoaded(sources, name)

C39_Witness ==
    /\ probe.called /\ probe.dir_exists
    /\ probe.sources = <<BaseDocument, Malformed, OverrideDocument>>
    /\ probe.engine.profiles.work = [redactions |-> <<"drop_phone">>]
    /\ DOMAIN probe.engine.profiles = {"work", "public"}
    /\ probe.engine.defaults.ttl_minutes = 30
    /\ DOMAIN probe.engine.scopes = {"bio.basic"}
====
